---- MODULE Spec2Model ----
(***************************************************************************)
(* A model of the file/download utilities (src/modules/utils.js) and of    *)
(* the Player component (src/components/Player/index.js) of the            *)
(* dropbox-demo-tape application.                                          *)
(*                                                                         *)
(* JavaScript strings are modelled as sequences of characters, a character *)
(* being a one-element TLA+ string; the em-dash is the character EmDash.   *)
(***************************************************************************)
EXTENDS Integers, Sequences, FiniteSets, TLC

VARIABLES
    nmTracks,     \* names: the pair of track objects handed to getFileName
    nmResult,     \* names: what getFileName / getFilePath returned for them
    playlists,    \* state.playlists.data: the playlists of the app state
    disk,         \* the file names present in FileSystem.documentDirectory
    runs,         \* the invocations of cleanFiles
    deletes,      \* the FileSystem.deleteAsync promises created so far
    unhandled,    \* rejected promises that no handler was attached to
    sessions,     \* the download sessions createDownloader has returned
    checks,       \* the invocations of isDownloaded
    mounted,      \* Player: componentDidMount has run
    props,        \* Player: this.props (track, isPlaying, isPaused)
    sound,        \* Player: this.sound, a handle or NoSound
    handles,      \* the sounds Audio.Sound.createAsync was called for
    inits,        \* Player: the invocations of initializeSound
    dispatched,   \* Player: the store actions dispatched (stop, trackComplete)
    playerState,  \* Player: this.state (currentTime, duration, isSeeking, position)
    seekCalls,    \* Player: the calls of seeking, seekEnd and handleAudioUpdate, in order
    callArg,      \* the argument of a call of one of the pure utilities
    callResult,   \* what that call returned
    console       \* what console.error has been called with

namesVars == <<nmTracks, nmResult>>
cleanVars == <<playlists, disk, runs, deletes, unhandled>>
filesVars == <<sessions, checks>>
playerVars ==
    <<mounted, props, sound, handles, inits, dispatched>>
seekVars == <<playerState, seekCalls>>
callVars == <<callArg, callResult>>
vars == <<namesVars, cleanVars, filesVars, playerVars, seekVars, callVars, console>>

----------------------------------------------------------------------------
(* Bounds of the model *)

\* longest track id / rev drawn for the naming functions
MaxIdLen == 2
\* number of cleanFiles invocations
MaxRuns == 2
\* number of download sessions created
MaxSessions == 2
\* number of isDownloaded invocations
MaxChecks == 1
\* number of initializeSound invocations
MaxInits == 2
\* number of store actions the Player dispatches
MaxDispatched == 1

----------------------------------------------------------------------------
(* Strings *)

EmDash == "emdash"
Tab == "\t"

\* the characters String.prototype.trim removes, among those modelled
WhiteSpace == {" ", Tab}

\* s.split(sep) for a one-character separator: always at least one part
RECURSIVE Split(_, _)
Split(s, sep) ==
    IF s = <<>> THEN << <<>> >>
    ELSE LET rest == Split(Tail(s), sep)
         IN IF Head(s) = sep
            THEN << <<>> >> \o rest
            ELSE << <<Head(s)>> \o Head(rest) >> \o Tail(rest)

\* parts.join(sep) for a non-empty array of strings
RECURSIVE Join(_, _)
Join(parts, sep) ==
    IF Len(parts) = 1 THEN Head(parts)
    ELSE Head(parts) \o <<sep>> \o Join(Tail(parts), sep)

RECURSIVE TrimStart(_)
TrimStart(s) ==
    IF s # <<>> /\ Head(s) \in WhiteSpace THEN TrimStart(Tail(s)) ELSE s

RECURSIVE TrimEnd(_)
TrimEnd(s) ==
    IF s # <<>> /\ s[Len(s)] \in WhiteSpace
    THEN TrimEnd(SubSeq(s, 1, Len(s) - 1))
    ELSE s

\* s.trim()
Trim(s) == TrimEnd(TrimStart(s))

\* array.includes(x)
Includes(array, x) == \E i \in 1..Len(array) : array[i] = x

----------------------------------------------------------------------------
(* File naming: src/modules/utils.js *)

\* FileSystem.documentDirectory
documentDirectory == <<"d", "o", "c", "/">>

\* a plausible bug: the em-dash is not replaced
createValidFileURI_NoEmDash(path) ==
    Trim(Join(Split(Join(Split(path, "-"), "_"), " "), "_"))

createValidFileURI(path) ==
    Trim(Join(Split(Join(Split(Join(Split(path, "-"), "_"), EmDash), "_"), " "), "_"))

getExtension(name) ==
    LET parts == Split(name, ".") IN parts[Len(parts)]

\* applied to track objects only (the null branch of the source is not used)
getFileName(track) ==
    createValidFileURI(
        track.id \o <<"_">> \o track.rev \o <<".">> \o getExtension(track.name))

getFilePath(track) == documentDirectory \o getFileName(track)

isAudioFile(name) ==
    getExtension(name) \in
        {<<"m", "p", "3">>, <<"m", "4", "a">>, <<"o", "v", "w">>, <<"w", "a", "v">>}

isPlaylist(name) == getExtension(name) = <<"m", "i", "x">>

----------------------------------------------------------------------------
(* The naming functions applied to bounded inputs *)

\* the value of downloadStatus that stands for null
NullStatus == -1

IdChars == {"a", "_", "-"}

RECURSIVE StringsUpTo(_, _)
StringsUpTo(chars, n) ==
    IF n = 0 THEN {<<>>}
    ELSE LET shorter == StringsUpTo(chars, n - 1)
         IN shorter \cup {<<c>> \o s : c \in chars, s \in {t \in shorter : Len(t) = n - 1}}

NameIds == StringsUpTo(IdChars, MaxIdLen) \ {<<>>}
NameRevs == {<<"1">>, <<"1", " ", "2">>, <<"1", EmDash, "2">>, <<"1", "_", "2">>}
NameNames == {<<"M", "y", " ", "S", ".", "m", "p", "3">>, <<"s", ".", "w", "a", "v">>}

NameTracks ==
    [id : NameIds, rev : NameRevs, name : NameNames, downloadStatus : {NullStatus}]

NoResult == <<>>

\* the naming variables in the specifications that do not use them
NamesUnused == nmTracks = <<>> /\ nmResult = NoResult

\* the download variables in the specifications that do not use them
FilesUnused == sessions = <<>> /\ checks = <<>>

\* the value of this.sound when no sound is referenced (undefined or null)
NoSound == 0

\* the Player variables in the specifications that do not use them
PlayerUnused ==
    /\ mounted = FALSE
    /\ props = <<>>
    /\ sound = NoSound
    /\ handles = <<>>
    /\ inits = <<>>
    /\ dispatched = <<>>

\* the seek variables in the specifications that do not use them
SeekUnused == playerState = <<>> /\ seekCalls = <<>>

\* the variables of the pure utilities in the specifications that do not call them
CallsUnused == callArg = <<>> /\ callResult = <<>>

\* the purge variables in the specifications that do not use them
CleanUnused ==
    /\ playlists = <<>>
    /\ disk = {}
    /\ runs = <<>>
    /\ deletes = {}
    /\ unhandled = {}

InitNames ==
    /\ nmTracks \in NameTracks \X NameTracks
    /\ nmResult = NoResult

\* getFileName and getFilePath are called on both tracks
ResolveNames ==
    /\ nmResult = NoResult
    /\ nmResult' = << [fileName |-> getFileName(nmTracks[1]),
                       filePath |-> getFilePath(nmTracks[1])],
                      [fileName |-> getFileName(nmTracks[2]),
                       filePath |-> getFilePath(nmTracks[2])] >>
    /\ UNCHANGED <<nmTracks, cleanVars, filesVars, playerVars, console, seekVars, callVars>>

NextNames == ResolveNames

InitNamesSpec == InitNames /\ CleanUnused /\ FilesUnused /\ PlayerUnused /\ console = {} /\ SeekUnused /\ CallsUnused

SpecNames == InitNamesSpec /\ [][NextNames]_vars

\* C5: the canonical file name and path of a track are injective in (id, rev):
\* two tracks whose (id, rev) pairs differ never resolve to the same file name
\* or the same file path.
C5_InjectiveInIdRev ==
    (nmResult # NoResult
        /\ <<nmTracks[1].id, nmTracks[1].rev>> # <<nmTracks[2].id, nmTracks[2].rev>>)
    => (nmResult[1].fileName # nmResult[2].fileName
        /\ nmResult[1].filePath # nmResult[2].filePath)

----------------------------------------------------------------------------
(* cleanFiles: src/modules/utils.js *)

TrackAbc ==
    [id |-> <<"a", "b", "c">>, rev |-> <<"3">>,
     name |-> <<"M", "y", " ", "S", "o", "n", "g", ".", "m", "p", "3">>,
     downloadStatus |-> 100]

TrackDash ==
    [id |-> <<"a", "-", "b">>, rev |-> <<"1">>,
     name |-> <<"x", ".", "w", "a", "v">>,
     downloadStatus |-> NullStatus]

PlaylistP1 ==
    [meta |-> [name |-> <<"p", "1", ".", "m", "i", "x">>],
     data |-> [tracks |-> <<TrackAbc>>]]

PlaylistP2 ==
    [meta |-> [name |-> <<"p", " ", "2", ".", "m", "i", "x">>],
     data |-> [tracks |-> <<TrackAbc, TrackDash>>]]

\* the values state.playlists.data takes
PlaylistStates == {<<>>, <<PlaylistP1>>, <<PlaylistP1, PlaylistP2>>}

FileP1 == <<"p", "1", ".", "m", "i", "x">>
FileAbc == <<"a", "b", "c", "_", "3", ".", "m", "p", "3">>
FileStray == <<"s", "t", "r", "a", "y", ".", "t", "x", "t">>

\* the file names that occur in the document directory
FileNames == {FileP1, FileAbc, FileStray}

Runs == 1..MaxRuns

IdleRun ==
    [pc |-> "idle", files |-> <<>>, playlists |-> <<>>,
     inactiveFiles |-> <<>>, after |-> {}]

InitClean ==
    /\ playlists \in PlaylistStates
    /\ disk \in SUBSET FileNames
    /\ runs = [r \in Runs |-> IdleRun]
    /\ deletes = {}
    /\ unhandled = {}

\* the array FileSystem.readDirectoryAsync resolves with: the names in some order
RECURSIVE readDirectory(_)
readDirectory(dir) ==
    IF dir = {} THEN <<>>
    ELSE LET f == CHOOSE x \in dir : TRUE
         IN <<f>> \o readDirectory(dir \ {f})

\* a plausible bug: the tracks' file names are left out of the active files
activeFilesOf_NoTracks(pls) ==
    [i \in 1..Len(pls) |-> createValidFileURI(pls[i].meta.name)]

\* playlists.reduce((all, p) => [...all, name of p, ...file names of p's tracks], [])
RECURSIVE activeFilesOf(_)
activeFilesOf(pls) ==
    IF pls = <<>> THEN <<>>
    ELSE LET p == pls[Len(pls)]
         IN activeFilesOf(SubSeq(pls, 1, Len(pls) - 1))
            \o <<createValidFileURI(p.meta.name)>>
            \o [j \in 1..Len(p.data.tracks) |-> getFileName(p.data.tracks[j])]

\* a plausible bug: every file that is not active is taken, whatever its extension
inactiveFilesOf_NoClassification(files, activeFiles) ==
    LET inactive(f) == ~Includes(activeFiles, f)
    IN SelectSeq(files, inactive)

\* files.filter(f => (isPlaylist(f) || isAudioFile(f)) && !activeFiles.includes(f))
inactiveFilesOf(files, activeFiles) ==
    LET inactive(f) == (isPlaylist(f) \/ isAudioFile(f)) /\ ~Includes(activeFiles, f)
    IN SelectSeq(files, inactive)

\* a store action replaces state.playlists.data
ChangePlaylists ==
    /\ \E new \in PlaylistStates \ {playlists} : playlists' = new
    /\ UNCHANGED <<disk, runs, deletes, unhandled, namesVars, filesVars, playerVars, console, seekVars, callVars>>

\* cleanFiles(getState) is called (the invocations are numbered in the order of
\* their calls): it calls readDirectoryAsync and awaits it
CleanFilesCall(r) ==
    /\ runs[r].pc = "idle"
    /\ \A q \in Runs : q < r => runs[q].pc # "idle"
    /\ runs' = [runs EXCEPT ![r].pc = "reading",
                            ![r].after = {q \in Runs : runs[q].pc = "returned"}]
    /\ UNCHANGED <<playlists, disk, deletes, unhandled, namesVars, filesVars, playerVars, console, seekVars, callVars>>

\* the file system lists the document directory
ReadDirectoryDone(r) ==
    /\ runs[r].pc = "reading"
    /\ runs' = [runs EXCEPT ![r].pc = "listed", ![r].files = readDirectory(disk)]
    /\ UNCHANGED <<playlists, disk, deletes, unhandled, namesVars, filesVars, playerVars, console, seekVars, callVars>>

\* readDirectoryAsync rejects: the await throws and cleanFiles rejects
ReadDirectoryFails(r) ==
    /\ runs[r].pc = "reading"
    /\ runs' = [runs EXCEPT ![r].pc = "rejected"]
    /\ UNCHANGED <<playlists, disk, deletes, unhandled, namesVars, filesVars, playerVars, console, seekVars, callVars>>

\* cleanFiles resumes after the await: it reads the state, computes the inactive
\* files, calls deleteAsync for each of them without awaiting, and returns
CleanFilesResume(r) ==
    /\ runs[r].pc = "listed"
    /\ LET activeFiles == activeFilesOf(playlists)
           inactiveFiles == inactiveFilesOf(runs[r].files, activeFiles)
       IN /\ runs' = [runs EXCEPT ![r].pc = "returned",
                                  ![r].playlists = playlists,
                                  ![r].inactiveFiles = inactiveFiles]
          /\ deletes' = deletes \cup
                {[run |-> r, file |-> inactiveFiles[i], status |-> "pending"] :
                    i \in 1..Len(inactiveFiles)}
    /\ UNCHANGED <<playlists, disk, unhandled, namesVars, filesVars, playerVars, console, seekVars, callVars>>

\* a deleteAsync promise resolves: the file is gone
DeleteResolves(d) ==
    /\ d.status = "pending"
    /\ d.file \in disk
    /\ disk' = disk \ {d.file}
    /\ deletes' = (deletes \ {d}) \cup {[d EXCEPT !.status = "resolved"]}
    /\ UNCHANGED <<playlists, runs, unhandled, namesVars, filesVars, playerVars, console, seekVars, callVars>>

\* a deleteAsync promise rejects (the file is missing, or the delete failed):
\* cleanFiles attached no handler to it
DeleteRejects(d) ==
    /\ d.status = "pending"
    /\ deletes' = (deletes \ {d}) \cup {[d EXCEPT !.status = "rejected"]}
    /\ unhandled' = unhandled \cup {[run |-> d.run, file |-> d.file]}
    /\ UNCHANGED <<playlists, disk, runs, namesVars, filesVars, playerVars, console, seekVars, callVars>>

NextClean ==
    \/ ChangePlaylists
    \/ \E r \in Runs : CleanFilesCall(r)
    \/ \E r \in Runs : ReadDirectoryDone(r)
    \/ \E r \in Runs : ReadDirectoryFails(r)
    \/ \E r \in Runs : CleanFilesResume(r)
    \/ \E d \in deletes : DeleteResolves(d)
    \/ \E d \in deletes : DeleteRejects(d)

InitCleanSpec == InitClean /\ NamesUnused /\ FilesUnused /\ PlayerUnused /\ console = {} /\ SeekUnused /\ CallsUnused

SpecClean == InitCleanSpec /\ [][NextClean]_vars

----------------------------------------------------------------------------
(* Properties of cleanFiles *)

Elements(array) == {array[i] : i \in 1..Len(array)}

\* neither a playlist file (extension mix) nor an audio file
UnrelatedFile(f) ==
    getExtension(f) \notin
        {<<"m", "i", "x">>, <<"m", "p", "3">>, <<"m", "4", "a">>,
         <<"o", "v", "w">>, <<"w", "a", "v">>}

\* the active set of a playlist state: the normalized playlist file names and
\* the file names of the playlists' tracks
ActiveSet(pls) ==
    UNION {{createValidFileURI(pls[i].meta.name)}
           \cup {getFileName(pls[i].data.tracks[j]) :
                    j \in 1..Len(pls[i].data.tracks)} : i \in 1..Len(pls)}

DeletesOf(r) == {d \in deletes : d.run = r}

\* C1: cleanFiles never issues a delete for an unrelated file (neither playlist
\* nor audio extension), and no step removes an unrelated file from the disk.
C1_UnrelatedNeverDeleted ==
    /\ [](\A d \in deletes : ~UnrelatedFile(d.file))
    /\ [][\A f \in disk : UnrelatedFile(f) => f \in disk']_vars

\* a purge that listed stray.txt has deleted other files and left it on disk
C1_Witness ==
    \E r \in Runs :
        /\ runs[r].pc = "returned"
        /\ FileStray \in Elements(runs[r].files)
        /\ DeletesOf(r) # {}
        /\ \A d \in DeletesOf(r) : d.status = "resolved"
        /\ FileStray \in disk

\* C2: the files a cleanFiles run deletes are exactly the listed names that are
\* playlist or audio files and are not in the active set of the state it read.
C2_DeletesExactlyInactive ==
    \A r \in Runs :
        runs[r].pc = "returned" =>
            LET expected == {f \in Elements(runs[r].files) :
                                /\ ~UnrelatedFile(f)
                                /\ f \notin ActiveSet(runs[r].playlists)}
            IN /\ Elements(runs[r].inactiveFiles) = expected
               /\ {d.file : d \in DeletesOf(r)} = expected
               /\ Len(runs[r].inactiveFiles) = Cardinality(expected)

\* the example of the specification: with [p1.mix, abc_3.mp3, stray.txt] on disk,
\* one run under the active set {p1.mix, abc_3.mp3} deleted nothing and one run
\* under the empty active set deleted p1.mix and abc_3.mp3
C2_Witness ==
    \E r1, r2 \in Runs :
        /\ runs[r1].pc = "returned" /\ runs[r2].pc = "returned"
        /\ Elements(runs[r1].files) = {FileP1, FileAbc, FileStray}
        /\ Elements(runs[r2].files) = {FileP1, FileAbc, FileStray}
        /\ ActiveSet(runs[r1].playlists) = {FileP1, FileAbc}
        /\ runs[r1].inactiveFiles = <<>>
        /\ runs[r2].playlists = <<>>
        /\ Elements(runs[r2].inactiveFiles) = {FileP1, FileAbc}

\* C6: a cleanFiles run called after an earlier call has returned, under the same
\* playlist state, deletes no file.
C6_SecondRunDeletesNothing ==
    \A r1, r2 \in Runs :
        (/\ runs[r2].pc = "returned"
         /\ r1 \in runs[r2].after
         /\ runs[r1].playlists = runs[r2].playlists)
        => runs[r2].inactiveFiles = <<>>

\* C7: a delete is issued for every candidate, and a failed delete is logged and
\* is not left as an unhandled rejection.
C7_DeleteFailuresLoggedNotRaised ==
    /\ \A r \in Runs :
          runs[r].pc = "returned" =>
              Elements(runs[r].inactiveFiles) = {d.file : d \in DeletesOf(r)}
    /\ \A d \in deletes :
          d.status = "rejected" =>
              /\ [run |-> d.run, file |-> d.file] \in console
              /\ [run |-> d.run, file |-> d.file] \notin unhandled

\* a cleanFiles invocation is in progress from its directory read until the
\* last of its deletes has settled
PurgeInProgress(r) ==
    \/ runs[r].pc \in {"reading", "listed"}
    \/ \E d \in DeletesOf(r) : d.status = "pending"

\* C8: at most one cleanFiles invocation is in progress at any time.
C8_AtMostOnePurge ==
    Cardinality({r \in Runs : PurgeInProgress(r)}) <= 1

----------------------------------------------------------------------------
(* createDownloader and isDownloaded: src/modules/utils.js *)

\* the track objects handed to createDownloader's caller and to isDownloaded
FileTracks ==
    {[TrackAbc EXCEPT !.downloadStatus = ds] : ds \in {NullStatus, 50, 100}}
        \cup {TrackDash}

\* the remote path of a track's file
RemotePath(track) == <<"/">> \o track.name

InitFiles ==
    /\ disk \in SUBSET {FileAbc, FileStray}
    /\ sessions = <<>>
    /\ checks = <<>>
    /\ playlists = <<>>
    /\ runs = <<>>
    /\ deletes = {}
    /\ unhandled = {}

\* the object createDownloader(local, remote, state, progress) returns
createDownloader(local, remote) ==
    [localPath |-> documentDirectory \o createValidFileURI(local),
     remote |-> remote,
     status |-> "created"]

\* a download of a track is set up: createDownloader is called with the track's
\* file name and returns a new resumable download; nothing else is touched
CreateDownloader(track) ==
    /\ Len(sessions) < MaxSessions
    /\ sessions' = Append(sessions, createDownloader(getFileName(track), RemotePath(track)))
    /\ UNCHANGED <<checks, cleanVars, namesVars, playerVars, console, seekVars, callVars>>

\* downloadAsync() is called on a session: its transfer starts
DownloadAsync(s) ==
    /\ sessions[s].status = "created"
    /\ sessions' = [sessions EXCEPT ![s].status = "running"]
    /\ UNCHANGED <<checks, cleanVars, namesVars, playerVars, console, seekVars, callVars>>

\* a running transfer completes: the file is at the session's local path
DownloadCompletes(s) ==
    /\ sessions[s].status = "running"
    /\ sessions' = [sessions EXCEPT ![s].status = "done"]
    /\ disk' = disk \cup {SubSeq(sessions[s].localPath, Len(documentDirectory) + 1,
                                 Len(sessions[s].localPath))}
    /\ UNCHANGED <<checks, playlists, runs, deletes, unhandled, namesVars, playerVars, console, seekVars, callVars>>

\* a running transfer fails
DownloadFails(s) ==
    /\ sessions[s].status = "running"
    /\ sessions' = [sessions EXCEPT ![s].status = "failed"]
    /\ UNCHANGED <<checks, cleanVars, namesVars, playerVars, console, seekVars, callVars>>

\* FileSystem.getInfoAsync(path) on the current document directory
getInfo(path) == [exists |-> \E f \in disk : documentDirectory \o f = path]

\* a plausible bug: the previous downloadStatus is kept when the file is missing
isDownloadedResult_KeepsStatus(track, info) ==
    [track EXCEPT !.downloadStatus = IF info.exists THEN 100 ELSE track.downloadStatus]

\* { ...track, downloadStatus: info.exists ? 100 : null }
isDownloadedResult(track, info) ==
    [track EXCEPT !.downloadStatus = IF info.exists THEN 100 ELSE NullStatus]

\* isDownloaded(track) is called: it calls getInfoAsync(getFilePath(track)) and
\* awaits it
IsDownloadedCall(track) ==
    /\ Len(checks) < MaxChecks
    /\ checks' = Append(checks, [pc |-> "pending", track |-> track,
                                 path |-> getFilePath(track),
                                 info |-> [exists |-> FALSE], result |-> track])
    /\ UNCHANGED <<sessions, cleanVars, namesVars, playerVars, console, seekVars, callVars>>

\* getInfoAsync resolves and isDownloaded returns the copy of the track
IsDownloadedReturn(c) ==
    /\ checks[c].pc = "pending"
    /\ LET info == getInfo(checks[c].path)
       IN checks' = [checks EXCEPT ![c].pc = "done",
                                   ![c].info = info,
                                   ![c].result = isDownloadedResult(checks[c].track, info)]
    /\ UNCHANGED <<sessions, cleanVars, namesVars, playerVars, console, seekVars, callVars>>

NextFiles ==
    \/ \E track \in FileTracks : CreateDownloader(track)
    \/ \E s \in 1..Len(sessions) : DownloadAsync(s)
    \/ \E s \in 1..Len(sessions) : DownloadCompletes(s)
    \/ \E s \in 1..Len(sessions) : DownloadFails(s)
    \/ \E track \in FileTracks : IsDownloadedCall(track)
    \/ \E c \in 1..Len(checks) : IsDownloadedReturn(c)

InitFilesSpec == InitFiles /\ NamesUnused /\ PlayerUnused /\ console = {} /\ SeekUnused /\ CallsUnused

SpecFiles == InitFilesSpec /\ [][NextFiles]_vars

\* C3: at most one download session per track is active: no two sessions with
\* the same local path have their transfers in flight together.
C3_OneActiveSessionPerTrack ==
    \A s1, s2 \in 1..Len(sessions) :
        (/\ s1 # s2
         /\ sessions[s1].localPath = sessions[s2].localPath
         /\ sessions[s1].status = "running")
        => sessions[s2].status # "running"

\* C10: isDownloaded returns the track with only downloadStatus replaced: 100
\* iff a file exists at getFilePath(track) when the file system is asked, null
\* otherwise, whatever the previous downloadStatus; the input track is unchanged.
C10_IsDownloadedExistenceOnly ==
    /\ [](\A c \in 1..Len(checks) :
            checks[c].pc = "done" =>
                /\ checks[c].result.id = checks[c].track.id
                /\ checks[c].result.rev = checks[c].track.rev
                /\ checks[c].result.name = checks[c].track.name
                /\ DOMAIN checks[c].result = DOMAIN checks[c].track
                /\ checks[c].result.downloadStatus \in {100, NullStatus})
    /\ [][\A c \in 1..Len(checks) :
            (checks[c].pc = "pending" /\ checks'[c].pc = "done") =>
                /\ (checks'[c].result.downloadStatus = 100)
                      <=> (getFileName(checks[c].track) \in disk)
                /\ checks'[c].track = checks[c].track]_vars

\* isDownloaded has overwritten an in-progress status with null: the track's
\* file is not on disk
C10_Witness ==
    \E c \in 1..Len(checks) :
        /\ checks[c].pc = "done"
        /\ checks[c].track.downloadStatus = 50
        /\ checks[c].info.exists = FALSE
        /\ checks[c].result.downloadStatus = NullStatus

----------------------------------------------------------------------------
(* The Player component: src/components/Player/index.js *)

\* props.track when no track is playing (undefined)
NoTrack == [null |-> TRUE]

\* the values of props.track
PlayerTracks ==
    {NoTrack, TrackAbc, [TrackAbc EXCEPT !.downloadStatus = 50],
     [TrackDash EXCEPT !.downloadStatus = 100]}

\* the values of this.props: the store pauses only what is playing
PlayerProps ==
    {p \in [track : PlayerTracks, isPlaying : BOOLEAN, isPaused : BOOLEAN] :
        p.isPaused => p.isPlaying}

InitPlayer ==
    /\ mounted = FALSE
    /\ props \in PlayerProps
    /\ sound = NoSound
    /\ handles = <<>>
    /\ inits = <<>>
    /\ dispatched = <<>>
    /\ console = {}

\* !track || !track.downloadStatus || track.downloadStatus < 100 does not hold
Playable(track) ==
    ~(\/ track = NoTrack
      \/ track.downloadStatus = NullStatus
      \/ track.downloadStatus = 0
      \/ track.downloadStatus < 100)

\* a new invocation of initializeSound(trackOverride, shouldPlayOverride)
NewInit(trackOverride, shouldPlayOverride) ==
    [pc |-> "called", trackOverride |-> trackOverride,
     shouldPlayOverride |-> shouldPlayOverride,
     unloads |-> NoSound, unload |-> "none",
     track |-> NoTrack, creates |-> NoSound, create |-> "none"]

\* initializeSound from the choice of the track (line 133) to its return or to
\* its await of Audio.Sound.createAsync, for invocation i of invs, with the
\* sounds hs, under the props p that this.props holds at that moment
AcquireSound(i, invs, hs, p) ==
    LET track == IF invs[i].trackOverride # NoTrack
                 THEN invs[i].trackOverride ELSE p.track
        shouldPlay == invs[i].shouldPlayOverride \/ (p.isPlaying /\ ~p.isPaused)
    IN IF ~Playable(track)
       THEN /\ inits' = [invs EXCEPT ![i].pc = "done", ![i].track = track]
            /\ handles' = hs
       ELSE /\ inits' = [invs EXCEPT ![i].pc = "creating", ![i].track = track,
                                     ![i].creates = Len(hs) + 1,
                                     ![i].create = "pending"]
            /\ handles' = Append(hs,
                    [track |-> track, status |-> "loading",
                     onStatus |-> TRUE, shouldPlay |-> shouldPlay])

\* initializeSound(trackOverride, shouldPlayOverride) is called under the props p:
\* with a sound referenced it clears the sound's status callback, calls
\* unloadAsync and awaits it; without one it goes on to acquire at once
InitializeSound(trackOverride, shouldPlayOverride, p) ==
    LET i == Len(inits) + 1
        invs == Append(inits, NewInit(trackOverride, shouldPlayOverride))
    IN IF sound # NoSound
       THEN /\ inits' = [invs EXCEPT ![i].pc = "unloading",
                                     ![i].unloads = sound,
                                     ![i].unload = "pending"]
            /\ handles' = [handles EXCEPT ![sound].onStatus = FALSE]
       ELSE AcquireSound(i, invs, handles, p)

\* componentDidMount: the audio mode is set and initializeSound() is called
ComponentDidMount ==
    /\ ~mounted
    /\ mounted' = TRUE
    /\ InitializeSound(NoTrack, FALSE, props)
    /\ UNCHANGED <<props, sound, dispatched, namesVars, cleanVars, filesVars, console, seekVars, callVars>>

\* this.sound.playAsync() / pauseAsync(), when a sound is referenced
handlePause(shouldPlay) ==
    IF sound # NoSound
    THEN handles' = [handles EXCEPT ![sound].shouldPlay = shouldPlay]
    ELSE handles' = handles

\* componentWillReceiveProps(next), after which this.props is next
ComponentWillReceiveProps(next) ==
    /\ mounted
    /\ next # props
    /\ IF next.track # props.track
       THEN /\ Len(inits) < MaxInits
            /\ InitializeSound(next.track, next.isPlaying /\ ~next.isPaused, props)
       ELSE /\ handlePause(next.isPlaying /\ ~next.isPaused)
            /\ inits' = inits
    /\ props' = next
    /\ UNCHANGED <<mounted, sound, dispatched, namesVars, cleanVars, filesVars, console, seekVars, callVars>>

\* the sounds after unloadAsync has released sound h
Released(h) ==
    [handles EXCEPT ![h].status = IF @ = "loaded" THEN "unloaded" ELSE @]

\* unloadAsync resolves for invocation i: this.sound is set to null and
\* initializeSound goes on to acquire
UnloadResolves(i) ==
    /\ inits[i].pc = "unloading"
    /\ sound' = NoSound
    /\ AcquireSound(i, [inits EXCEPT ![i].unload = "ok"], Released(inits[i].unloads), props)
    /\ UNCHANGED <<mounted, props, dispatched, namesVars, cleanVars, filesVars, console, seekVars, callVars>>

\* a plausible bug: a failed unload ends initializeSound
UnloadRejects_Blocks(i) ==
    /\ inits[i].pc = "unloading"
    /\ console' = console \cup {[error |-> "unload", init |-> i]}
    /\ inits' = [inits EXCEPT ![i].unload = "failed", ![i].pc = "done",
                              ![i].track = IF inits[i].trackOverride # NoTrack
                                           THEN inits[i].trackOverride ELSE props.track]
    /\ UNCHANGED <<mounted, props, sound, handles, dispatched,
                   namesVars, cleanVars, filesVars, seekVars, callVars>>

\* unloadAsync rejects for invocation i: the error is logged, this.sound is
\* left as it is and initializeSound goes on to acquire
UnloadRejects(i) ==
    /\ inits[i].pc = "unloading"
    /\ console' = console \cup {[error |-> "unload", init |-> i]}
    /\ AcquireSound(i, [inits EXCEPT ![i].unload = "failed"], handles, props)
    /\ UNCHANGED <<mounted, props, sound, dispatched, namesVars, cleanVars, filesVars, seekVars, callVars>>

\* createAsync resolves for invocation i: this.sound is the new sound
CreateResolves(i) ==
    /\ inits[i].pc = "creating"
    /\ inits' = [inits EXCEPT ![i].pc = "done", ![i].create = "ok"]
    /\ handles' = [handles EXCEPT ![inits[i].creates].status = "loaded"]
    /\ sound' = inits[i].creates
    /\ UNCHANGED <<mounted, props, dispatched, namesVars, cleanVars, filesVars, console, seekVars, callVars>>

\* createAsync rejects for invocation i: this.sound is set to null
CreateRejects(i) ==
    /\ inits[i].pc = "creating"
    /\ inits' = [inits EXCEPT ![i].pc = "done", ![i].create = "failed"]
    /\ handles' = [handles EXCEPT ![inits[i].creates].status = "failed",
                                  ![inits[i].creates].onStatus = FALSE]
    /\ sound' = NoSound
    /\ UNCHANGED <<mounted, props, dispatched, namesVars, cleanVars, filesVars, console, seekVars, callVars>>

\* handleAudioUpdate(status) for a status update of the loaded sound h that has
\* isLoaded and didJustFinish: trackComplete is dispatched
AudioUpdateFinished(h) ==
    /\ Len(dispatched) < MaxDispatched
    /\ handles[h].status = "loaded"
    /\ handles[h].onStatus
    /\ dispatched' = Append(dispatched, [type |-> "trackComplete", handle |-> h])
    /\ UNCHANGED <<mounted, props, sound, handles, inits,
                   namesVars, cleanVars, filesVars, console, seekVars, callVars>>

\* handleAudioUpdate(status) for a status update of sound h that is not loaded
\* and has an error: the error is logged and stop is dispatched
AudioUpdateError(h) ==
    /\ Len(dispatched) < MaxDispatched
    /\ handles[h].status = "loaded"
    /\ handles[h].onStatus
    /\ handles' = [handles EXCEPT ![h].status = "errored"]
    /\ console' = console \cup {[error |-> "player", handle |-> h]}
    /\ dispatched' = Append(dispatched, [type |-> "stop", handle |-> h])
    /\ UNCHANGED <<mounted, props, sound, inits, namesVars, cleanVars, filesVars, seekVars, callVars>>

NextPlayer ==
    \/ ComponentDidMount
    \/ \E next \in PlayerProps : ComponentWillReceiveProps(next)
    \/ \E i \in 1..Len(inits) : UnloadResolves(i)
    \/ \E i \in 1..Len(inits) : UnloadRejects(i)
    \/ \E i \in 1..Len(inits) : CreateResolves(i)
    \/ \E i \in 1..Len(inits) : CreateRejects(i)
    \/ \E h \in 1..Len(handles) : AudioUpdateFinished(h)
    \/ \E h \in 1..Len(handles) : AudioUpdateError(h)

InitPlayerSpec == InitPlayer /\ NamesUnused /\ CleanUnused /\ FilesUnused /\ SeekUnused /\ CallsUnused

SpecPlayer == InitPlayerSpec /\ [][NextPlayer]_vars

----------------------------------------------------------------------------
(* Properties of the Player *)

\* C4: an initializeSound call that found a sound referenced starts createAsync
\* only after its unloadAsync has settled; when the unload fails the failure is
\* logged and the call goes on as after a successful unload: createAsync is
\* started for the (fully downloaded) new track.
C4_UnloadSettlesBeforeCreate ==
    \A i \in 1..Len(inits) :
        /\ (inits[i].unloads # NoSound /\ inits[i].create # "none")
              => inits[i].unload \in {"ok", "failed"}
        /\ inits[i].unload = "pending"
              => \A h \in 1..Len(handles) : inits[i].creates # h
        /\ inits[i].unload = "failed"
              => /\ [error |-> "unload", init |-> i] \in console
                 /\ Playable(inits[i].track) => inits[i].create # "none"

\* a track switch whose unloadAsync failed has loaded the new track's sound
C4_Witness ==
    \E i \in 1..Len(inits) :
        /\ inits[i].unloads # NoSound
        /\ inits[i].unload = "failed"
        /\ inits[i].create = "ok"
        /\ handles[inits[i].creates].status = "loaded"
        /\ sound = inits[i].creates

\* C9: every audio error makes the Player dispatch stop: an error reported by a
\* status update and a failure of createAsync alike.
C9_AudioErrorsEmitStop ==
    \A h \in 1..Len(handles) :
        handles[h].status \in {"errored", "failed"}
            => \E k \in 1..Len(dispatched) :
                  dispatched[k] = [type |-> "stop", handle |-> h]

\* C11: trackComplete is dispatched only for the sound the Player currently
\* holds: a step that dispatches trackComplete does so on a status update of
\* the sound referenced by this.sound, never on an update of a sound that a
\* later track switch has replaced.
C11_TrackCompleteOnlyFromCurrentSound ==
    [][(Len(dispatched') = Len(dispatched) + 1
            /\ dispatched'[Len(dispatched')].type = "trackComplete")
          => dispatched'[Len(dispatched')].handle = sound]_vars

\* C15: at most one sound is loaded, and a loaded sound is the one referenced
\* by this.sound, whatever the overlap of initializeSound invocations.
C15_LoadedSoundIsReferenced ==
    \A h \in 1..Len(handles) : handles[h].status = "loaded" => sound = h

\* the track that invocation i of initializeSound was asked to load: its
\* override when it has one, the props of the mount otherwise
RequestedTrack(i) ==
    IF inits[i].trackOverride # NoTrack THEN inits[i].trackOverride
    ELSE IF i = 1 THEN inits[i].track ELSE NoTrack

\* C16: when a sound is loaded and no initializeSound invocation is pending,
\* the sound has been told to play exactly when the latest props have
\* isPlaying && !isPaused.
C16_PlayStateFollowsProps ==
    (/\ sound # NoSound
     /\ handles[sound].status = "loaded"
     /\ \A i \in 1..Len(inits) : inits[i].pc = "done")
        => (handles[sound].shouldPlay <=> (props.isPlaying /\ ~props.isPaused))

\* C18: createAsync is called only for the requested track and only when its
\* downloadStatus is 100; an invocation asked to load a missing or partly
\* downloaded track loads nothing, and when it is the latest invocation and has
\* completed no sound is referenced by this.sound or left loaded.
C18_OnlyDownloadedTracksLoaded ==
    \A i \in 1..Len(inits) :
        /\ inits[i].creates # NoSound
              => /\ handles[inits[i].creates].track.downloadStatus = 100
                 /\ handles[inits[i].creates].track = RequestedTrack(i)
        /\ (i = Len(inits) /\ inits[i].pc = "done" /\ ~Playable(RequestedTrack(i)))
              => /\ sound = NoSound
                 /\ \A h \in 1..Len(handles) : handles[h].status # "loaded"

----------------------------------------------------------------------------
(* createValidFileURI applied to bounded strings *)

\* longest string normalised
MaxUriLen == 3

\* the characters createValidFileURI replaces or trims, and two it keeps
UriChars == {"a", "_", "-", EmDash, " ", Tab}

InitUri ==
    /\ callArg \in StringsUpTo(UriChars, MaxUriLen)
    /\ callResult = <<>>

\* createValidFileURI is applied to the string, and again to its own result
NormalizeTwice ==
    /\ callResult = <<>>
    /\ callResult' = <<createValidFileURI(callArg),
                       createValidFileURI(createValidFileURI(callArg))>>
    /\ UNCHANGED <<callArg, namesVars, cleanVars, filesVars, playerVars, seekVars, console>>

NextUri == NormalizeTwice

InitUriSpec ==
    InitUri /\ NamesUnused /\ CleanUnused /\ FilesUnused /\ PlayerUnused
            /\ SeekUnused /\ console = {}

SpecUri == InitUriSpec /\ [][NextUri]_vars

\* C12: createValidFileURI replaces every hyphen, em-dash and space by an
\* underscore and trims white space at both ends; it is idempotent, and its
\* result holds no hyphen, em-dash or space and neither starts nor ends with
\* white space.
C12_NormalizeIdempotent ==
    callResult # <<>> =>
        LET once == callResult[1]
            twice == callResult[2]
            replaced == [k \in 1..Len(callArg) |->
                            IF callArg[k] \in {"-", EmDash, " "}
                            THEN "_" ELSE callArg[k]]
        IN /\ once = Trim(replaced)
           /\ twice = once
           /\ \A k \in 1..Len(once) : once[k] \notin {"-", EmDash, " "}
           /\ once # <<>> => (once[1] \notin WhiteSpace /\ once[Len(once)] \notin WhiteSpace)

\* a string with a leading tab, an em-dash and a space has been normalised
C12_Witness ==
    /\ callArg = <<Tab, EmDash, " ">>
    /\ callResult = << <<"_", "_">>, <<"_", "_">> >>

----------------------------------------------------------------------------
(* getModifiedUsersFromEntries: src/modules/utils.js *)

\* longest array of entries
MaxEntries == 3

\* the value undefined, which is no string
undefined == <<"undefined">>

\* get(entry, 'sharing_info.modified_by') of dot-prop
getModifiedBy(entry) ==
    IF "sharing_info" \in DOMAIN entry
    THEN IF "modified_by" \in DOMAIN entry.sharing_info
         THEN entry.sharing_info.modified_by
         ELSE undefined
    ELSE undefined

\* [...new Set(array)]: the first occurrence of each value, in order
RECURSIVE Unique(_)
Unique(array) ==
    IF array = <<>> THEN <<>>
    ELSE LET init == Unique(SubSeq(array, 1, Len(array) - 1))
             last == array[Len(array)]
         IN IF Includes(init, last) THEN init ELSE Append(init, last)

\* Boolean(x) for a string or undefined
Truthy(x) == x # undefined /\ x # <<>>

\* a plausible bug: the ids are not passed through a Set
getModifiedUsersFromEntries_NoSet(entries) ==
    SelectSeq([k \in 1..Len(entries) |-> getModifiedBy(entries[k])], Truthy)

getModifiedUsersFromEntries(entries) ==
    SelectSeq(Unique([k \in 1..Len(entries) |-> getModifiedBy(entries[k])]), Truthy)

\* Dropbox entries: without sharing_info, with sharing_info that has no
\* modified_by, and modified by two users or by the empty id
ListEntries ==
    {[name |-> <<"a">>],
     [name |-> <<"a">>, sharing_info |-> [read_only |-> TRUE]],
     [name |-> <<"a">>, sharing_info |-> [modified_by |-> <<"u", "1">>]],
     [name |-> <<"a">>, sharing_info |-> [modified_by |-> <<"u", "2">>]],
     [name |-> <<"a">>, sharing_info |-> [modified_by |-> <<>>]]}

RECURSIVE ArraysUpTo(_, _)
ArraysUpTo(elements, n) ==
    IF n = 0 THEN {<<>>}
    ELSE LET shorter == ArraysUpTo(elements, n - 1)
         IN shorter \cup {<<e>> \o a : e \in elements, a \in {t \in shorter : Len(t) = n - 1}}

InitEntries ==
    /\ callArg \in ArraysUpTo(ListEntries, MaxEntries)
    /\ callResult = <<>>

GetModifiedUsers ==
    /\ callResult = <<>>
    /\ callResult' = <<getModifiedUsersFromEntries(callArg)>>
    /\ UNCHANGED <<callArg, namesVars, cleanVars, filesVars, playerVars, seekVars, console>>

NextEntries == GetModifiedUsers

InitEntriesSpec ==
    InitEntries /\ NamesUnused /\ CleanUnused /\ FilesUnused /\ PlayerUnused
                /\ SeekUnused /\ console = {}

SpecEntries == InitEntriesSpec /\ [][NextEntries]_vars

\* the entries of the call that carry a non-empty sharing_info.modified_by
ModifiedEntries ==
    {k \in 1..Len(callArg) :
        /\ "sharing_info" \in DOMAIN callArg[k]
        /\ "modified_by" \in DOMAIN callArg[k].sharing_info
        /\ callArg[k].sharing_info.modified_by # <<>>}

\* C14: getModifiedUsersFromEntries returns exactly the distinct non-empty
\* modified_by ids of the entries: each returned id is the modified_by of an
\* entry, each non-empty modified_by is returned, none is returned twice, and
\* entries without sharing_info or modified_by contribute nothing.
C14_DistinctModifiedUsers ==
    callResult # <<>> =>
        LET ids == callResult[1]
        IN /\ \A j \in 1..Len(ids) :
                \E k \in ModifiedEntries : callArg[k].sharing_info.modified_by = ids[j]
           /\ \A k \in ModifiedEntries :
                \E j \in 1..Len(ids) : ids[j] = callArg[k].sharing_info.modified_by
           /\ \A j, k \in 1..Len(ids) : ids[j] = ids[k] => j = k

\* two entries of the same user around an entry without sharing_info give the
\* user once
C14_Witness ==
    /\ Len(callArg) = 3
    /\ getModifiedBy(callArg[1]) = <<"u", "1">>
    /\ "sharing_info" \notin DOMAIN callArg[2]
    /\ getModifiedBy(callArg[3]) = <<"u", "1">>
    /\ callResult = << << <<"u", "1">> >> >>

----------------------------------------------------------------------------
(* cleanHeader and the Dropbox-API-Arg header of createDownloader.
   A string is here a sequence of UTF-16 code units, as charCodeAt sees it. *)

\* longest remote path
MaxRemoteLen == 2

\* the digits of Number.prototype.toString(16): 0-9 and a-f
HexDigits == <<48, 49, 50, 51, 52, 53, 54, 55, 56, 57, 97, 98, 99, 100, 101, 102>>

\* n.toString(16)
RECURSIVE toString16(_)
toString16(n) ==
    IF n < 16 THEN <<HexDigits[n + 1]>>
    ELSE toString16(n \div 16) \o <<HexDigits[(n % 16) + 1]>>

\* '\\u' + ('000' + char.charCodeAt(0).toString(16)).slice(-4)
EscapeUnit(unit) ==
    LET padded == <<48, 48, 48>> \o toString16(unit)
    IN <<92, 117>> \o SubSeq(padded, Len(padded) - 3, Len(padded))

\* JSON.stringify of one code unit of a string: the quote, the backslash and
\* the control characters are escaped, everything else is copied (a lone
\* surrogate, which newer engines escape here, gets the same text from the
\* replace of cleanHeader)
QuoteUnit(unit) ==
    IF unit = 34 THEN <<92, 34>>
    ELSE IF unit = 92 THEN <<92, 92>>
    ELSE IF unit = 8 THEN <<92, 98>>
    ELSE IF unit = 9 THEN <<92, 116>>
    ELSE IF unit = 10 THEN <<92, 110>>
    ELSE IF unit = 12 THEN <<92, 102>>
    ELSE IF unit = 13 THEN <<92, 114>>
    ELSE IF unit < 32 THEN EscapeUnit(unit)
    ELSE <<unit>>

RECURSIVE Quote(_)
Quote(string) ==
    IF string = <<>> THEN <<>> ELSE QuoteUnit(Head(string)) \o Quote(Tail(string))

\* JSON.stringify({ path: remote }): {"path":"..."}
JSONstringify(header) ==
    <<123, 34, 112, 97, 116, 104, 34, 58, 34>> \o Quote(header.path) \o <<34, 125>>

\* string.replace(/[\u007f-\uffff]/g, char => ...)
RECURSIVE ReplaceInvalid(_)
ReplaceInvalid(string) ==
    IF string = <<>> THEN <<>>
    ELSE (IF Head(string) >= 127 /\ Head(string) <= 65535
          THEN EscapeUnit(Head(string)) ELSE <<Head(string)>>)
         \o ReplaceInvalid(Tail(string))

\* a plausible bug: the header is not escaped
cleanHeader_NoEscape(header) == JSONstringify(header)

cleanHeader(header) == ReplaceInvalid(JSONstringify(header))

\* the code units of remote paths: / a " \ newline ~ DEL, U+0080, U+00C9,
\* U+4E2D, a high surrogate and U+FFFF
RemoteUnits == {47, 97, 34, 92, 10, 126, 127, 128, 201, 20013, 55357, 65535}

InitHeader ==
    /\ callArg \in StringsUpTo(RemoteUnits, MaxRemoteLen)
    /\ callResult = <<>>

\* createDownloader builds the Dropbox-API-Arg header for the remote path
BuildApiArg ==
    /\ callResult = <<>>
    /\ callResult' = <<cleanHeader([path |-> callArg])>>
    /\ UNCHANGED <<callArg, namesVars, cleanVars, filesVars, playerVars, seekVars, console>>

NextHeader == BuildApiArg

InitHeaderSpec ==
    InitHeader /\ NamesUnused /\ CleanUnused /\ FilesUnused /\ PlayerUnused
               /\ SeekUnused /\ console = {}

SpecHeader == InitHeaderSpec /\ [][NextHeader]_vars

\* the value of a hexadecimal digit, -1 for any other code unit
HexDigitValue(unit) ==
    IF unit >= 48 /\ unit <= 57 THEN unit - 48
    ELSE IF unit >= 97 /\ unit <= 102 THEN unit - 87
    ELSE -1

\* text is json with each code unit from first upwards written as \u and four
\* hexadecimal digits, and every other code unit left as it is
RECURSIVE EscapedFrom(_, _, _)
EscapedFrom(text, json, first) ==
    IF json = <<>> THEN text = <<>>
    ELSE IF Head(json) >= first
    THEN /\ Len(text) >= 6
         /\ text[1] = 92
         /\ text[2] = 117
         /\ \A k \in 3..6 : HexDigitValue(text[k]) >= 0
         /\ ((HexDigitValue(text[3]) * 16 + HexDigitValue(text[4])) * 16
                + HexDigitValue(text[5])) * 16 + HexDigitValue(text[6]) = Head(json)
         /\ EscapedFrom(SubSeq(text, 7, Len(text)), Tail(json), first)
    ELSE /\ text # <<>>
         /\ Head(text) = Head(json)
         /\ EscapedFrom(Tail(text), Tail(json), first)

\* C13 as stated: the header is the JSON encoding of {path: remote} with every
\* code unit above U+007F replaced by \u and its four hexadecimal digits and
\* every other character unchanged.
C13_Original ==
    callResult # <<>> =>
        EscapedFrom(callResult[1], JSONstringify([path |-> callArg]), 128)

\* C13: the Dropbox-API-Arg header is the JSON encoding of {path: remote} with
\* every code unit from U+007F upwards (U+007F included) replaced by \u and
\* its four hexadecimal digits and every other character unchanged; the header
\* holds no character from U+007F upwards.
C13_HeaderEscaped ==
    callResult # <<>> =>
        /\ EscapedFrom(callResult[1], JSONstringify([path |-> callArg]), 127)
        /\ \A k \in 1..Len(callResult[1]) : callResult[1][k] < 127

\* {path: "/" + U+00C9} has given {"path":"/\u00c9"}
C13_Witness ==
    /\ callArg = <<47, 201>>
    /\ callResult = << <<123, 34, 112, 97, 116, 104, 34, 58, 34,
                         47, 92, 117, 48, 48, 99, 57, 34, 125>> >>

----------------------------------------------------------------------------
(* transformFile and the entry filters: src/modules/utils.js.
   The field tag stands for the property '.tag' of a Dropbox entry. *)

isFolderOrAudioFile(entry) ==
    entry.tag = "folder" \/ (entry.tag = "file" /\ isAudioFile(entry.name))

isFolderOrPlaylist(entry) ==
    entry.tag = "folder" \/ (entry.tag = "file" /\ isPlaylist(entry.name))

\* { ...file, isAudioFile, isFolder, isPlaylist, path, type, user }
transformFile(file) ==
    LET derived == [isAudioFile |-> isAudioFile(file.name),
                    isFolder |-> file.tag = "folder",
                    isPlaylist |-> isPlaylist(file.name),
                    path |-> file.path_display,
                    type |-> file.tag,
                    user |-> getModifiedBy(file)]
    IN [key \in DOMAIN file \cup DOMAIN derived |->
            IF key \in DOMAIN derived THEN derived[key] ELSE file[key]]

\* names of remote entries
EntryNames ==
    {<<"s", ".", "m", "p", "3">>, <<"s", ".", "m", "4", "a">>,
     <<"s", ".", "o", "v", "w">>, <<"s", ".", "w", "a", "v">>,
     <<"p", ".", "m", "i", "x">>, <<"n", ".", "t", "x", "t">>,
     <<"s", ".", "m", "p", "3", ".", "t", "x", "t">>, <<"d", "i", "r">>}

\* remote entries, with and without sharing_info
RemoteEntries ==
    {[tag |-> t, name |-> n, path_display |-> <<"/">> \o n] :
        t \in {"file", "folder", "deleted"}, n \in EntryNames}
    \cup
    {[tag |-> t, name |-> n, path_display |-> <<"/">> \o n,
      sharing_info |-> [modified_by |-> u]] :
        t \in {"file", "folder", "deleted"}, n \in EntryNames,
        u \in {<<"u", "1">>, <<"u", "2">>}}

InitTransform ==
    /\ callArg \in RemoteEntries
    /\ callResult = <<>>

TransformFile ==
    /\ callResult = <<>>
    /\ callResult' = <<transformFile(callArg)>>
    /\ UNCHANGED <<callArg, namesVars, cleanVars, filesVars, playerVars, seekVars, console>>

NextTransform == TransformFile

InitTransformSpec ==
    InitTransform /\ NamesUnused /\ CleanUnused /\ FilesUnused /\ PlayerUnused
                  /\ SeekUnused /\ console = {}

SpecTransform == InitTransformSpec /\ [][NextTransform]_vars

\* C19: the flags transformFile derives are mutually exclusive and respect the
\* tag: at most one of isFolder, isAudioFile, isPlaylist is true, isAudioFile
\* and isPlaylist are true only for entries tagged 'file', and so the flags
\* agree with isFolderOrAudioFile and isFolderOrPlaylist.
C19_FlagsExclusive ==
    callResult # <<>> =>
        LET file == callResult[1]
        IN /\ ~(file.isFolder /\ file.isAudioFile)
           /\ ~(file.isFolder /\ file.isPlaylist)
           /\ ~(file.isAudioFile /\ file.isPlaylist)
           /\ (file.isAudioFile \/ file.isPlaylist) => file.type = "file"
           /\ (file.isFolder \/ file.isAudioFile) <=> isFolderOrAudioFile(callArg)
           /\ (file.isFolder \/ file.isPlaylist) <=> isFolderOrPlaylist(callArg)

----------------------------------------------------------------------------
(* Seeking in the Player: src/components/Player/index.js.
   A position is a fraction <<numerator, denominator>> in lowest terms; of
   this.state the fields that seeking, seekEnd and the updater of
   handleAudioUpdate read or that seekEnd uses are kept, the other fields are
   copies of the status. *)

\* number of calls of seeking, seekEnd and handleAudioUpdate
MaxSeekCalls == 4

RECURSIVE GCD(_, _)
GCD(a, b) == IF b = 0 THEN a ELSE GCD(b, a % b)

\* n / d
Fraction(n, d) == <<n \div GCD(n, d), d \div GCD(n, d)>>

\* the positions the slider reports to seeking and seekEnd
SliderPositions == {<<1, 2>>, <<1, 1>>}

\* the status updates of a loaded sound
LoadedStatuses ==
    [isLoaded : {TRUE}, positionMillis : {0, 1000}, durationMillis : {1000},
     didJustFinish : BOOLEAN]

\* the sound of a mounted Player whose createAsync has settled
SettledInit(outcome) ==
    [NewInit(NoTrack, FALSE) EXCEPT !.pc = "done", !.track = TrackAbc,
                                    !.creates = 1, !.create = outcome]

\* a mounted Player whose sound is loaded, or whose createAsync has failed
InitSeek ==
    /\ mounted = TRUE
    /\ props \in {q \in PlayerProps : q.track = TrackAbc /\ q.isPlaying}
    /\ \/ /\ sound = 1
          /\ inits = <<SettledInit("ok")>>
          /\ handles = <<[track |-> TrackAbc, status |-> "loaded", onStatus |-> TRUE,
                          shouldPlay |-> ~props.isPaused]>>
       \/ /\ sound = NoSound
          /\ inits = <<SettledInit("failed")>>
          /\ handles = <<[track |-> TrackAbc, status |-> "failed", onStatus |-> FALSE,
                          shouldPlay |-> ~props.isPaused]>>
    /\ dispatched = <<>>
    /\ console = {}
    /\ playerState = [currentTime |-> 0, duration |-> 0, isSeeking |-> FALSE,
                      position |-> <<0, 1>>]
    /\ seekCalls = <<>>

\* a plausible bug: the updater overwrites the position while the user seeks
audioUpdater_IgnoresSeeking(state, status) ==
    [state EXCEPT !.currentTime = status.positionMillis,
                  !.duration = status.durationMillis,
                  !.position = Fraction(status.positionMillis, status.durationMillis)]

\* the updater that handleAudioUpdate passes to setState
audioUpdater(state, status) ==
    [state EXCEPT !.currentTime = status.positionMillis,
                  !.duration = status.durationMillis,
                  !.position = IF state.isSeeking THEN state.position
                               ELSE Fraction(status.positionMillis, status.durationMillis)]

\* handleAudioUpdate(status) for a status update of sound h that has isLoaded
HandleAudioUpdate(h, status) ==
    /\ Len(seekCalls) < MaxSeekCalls
    /\ handles[h].status = "loaded"
    /\ handles[h].onStatus
    /\ status.didJustFinish => Len(dispatched) < MaxDispatched
    /\ playerState' = audioUpdater(playerState, status)
    /\ dispatched' = IF status.didJustFinish
                     THEN Append(dispatched, [type |-> "trackComplete", handle |-> h])
                     ELSE dispatched
    /\ seekCalls' = Append(seekCalls, [call |-> "handleAudioUpdate", status |-> status])
    /\ UNCHANGED <<mounted, props, sound, handles, inits,
                   namesVars, cleanVars, filesVars, callVars, console>>

\* seeking(position)
Seeking(position) ==
    /\ Len(seekCalls) < MaxSeekCalls
    /\ playerState' = [playerState EXCEPT !.isSeeking = TRUE, !.position = position]
    /\ seekCalls' = Append(seekCalls, [call |-> "seeking", position |-> position])
    /\ UNCHANGED <<playerVars, namesVars, cleanVars, filesVars, callVars, console>>

\* seekEnd(position): with a sound referenced the sound is sent to
\* position * this.state.duration, playing or not as the props say
SeekEnd(position) ==
    LET seekTo == Fraction(position[1] * playerState.duration, position[2])
        playing == props.isPlaying /\ ~props.isPaused
    IN /\ Len(seekCalls) < MaxSeekCalls
       /\ handles' = IF sound # NoSound /\ playing
                     THEN [handles EXCEPT ![sound].shouldPlay = TRUE]
                     ELSE handles
       /\ playerState' = [playerState EXCEPT !.isSeeking = FALSE, !.position = position]
       /\ seekCalls' = Append(seekCalls,
             [call |-> "seekEnd", position |-> position,
              command |-> IF sound = NoSound THEN "none"
                          ELSE IF playing THEN "playFromPositionAsync"
                          ELSE "setPositionAsync",
              seekTo |-> seekTo])
       /\ UNCHANGED <<mounted, props, sound, inits, dispatched,
                      namesVars, cleanVars, filesVars, callVars, console>>

NextSeek ==
    \/ \E position \in SliderPositions : Seeking(position)
    \/ \E position \in SliderPositions : SeekEnd(position)
    \/ \E h \in 1..Len(handles), status \in LoadedStatuses : HandleAudioUpdate(h, status)
    \/ \E h \in 1..Len(handles) : AudioUpdateError(h)

InitSeekSpec == InitSeek /\ NamesUnused /\ CleanUnused /\ FilesUnused /\ CallsUnused

SpecSeek == InitSeekSpec /\ [][NextSeek]_vars

\* the index in seekCalls of the latest call of seeking or seekEnd, 0 if none
LastSeekCall ==
    LET seeks == {k \in 1..Len(seekCalls) : seekCalls[k].call \in {"seeking", "seekEnd"}}
    IN IF seeks = {} THEN 0 ELSE CHOOSE k \in seeks : \A j \in seeks : j <= k

\* the index in seekCalls of the latest status update, 0 if none
LastUpdate ==
    LET updates == {k \in 1..Len(seekCalls) : seekCalls[k].call = "handleAudioUpdate"}
    IN IF updates = {} THEN 0 ELSE CHOOSE k \in updates : \A j \in updates : j <= k

\* the position the latest status update reports
ReportedPosition ==
    Fraction(seekCalls[LastUpdate].status.positionMillis,
             seekCalls[LastUpdate].status.durationMillis)

\* C20: from a seeking(p) call until the next seekEnd, status updates leave the
\* position at the last value passed to seeking, however updates and seeking
\* calls interleave; seekEnd(p) sets the position to p and clears isSeeking,
\* after which a status update overwrites the position again.
C20_SeekingFreezesPosition ==
    IF LastSeekCall = 0
    THEN /\ ~playerState.isSeeking
         /\ playerState.position = IF LastUpdate = 0 THEN <<0, 1>> ELSE ReportedPosition
    ELSE IF seekCalls[LastSeekCall].call = "seeking"
    THEN /\ playerState.isSeeking
         /\ playerState.position = seekCalls[LastSeekCall].position
    ELSE /\ ~playerState.isSeeking
         /\ playerState.position = IF LastUpdate > LastSeekCall THEN ReportedPosition
                                   ELSE seekCalls[LastSeekCall].position

\* a status update at the end of the track has arrived between seeking(1/2) and
\* seekEnd(1/2), and another one at the start of the track after it
C20_Witness ==
    /\ Len(seekCalls) = 4
    /\ seekCalls[1] = [call |-> "seeking", position |-> <<1, 2>>]
    /\ seekCalls[2].call = "handleAudioUpdate"
    /\ seekCalls[2].status.positionMillis = 1000
    /\ seekCalls[3].call = "seekEnd"
    /\ seekCalls[3].position = <<1, 2>>
    /\ seekCalls[4].call = "handleAudioUpdate"
    /\ playerState.position = <<0, 1>>

----------------------------------------------------------------------------
(* Downloads, isDownloaded and cleanFiles on one document directory *)

\* the application starts on an empty document directory
InitStore ==
    /\ playlists \in PlaylistStates
    /\ disk = {}
    /\ runs = [r \in Runs |-> IdleRun]
    /\ deletes = {}
    /\ unhandled = {}
    /\ sessions = <<>>
    /\ checks = <<>>

\* the tracks listed in the playlists pls
RECURSIVE ListedTracks(_)
ListedTracks(pls) ==
    IF pls = <<>> THEN {}
    ELSE {Head(pls).data.tracks[j] : j \in 1..Len(Head(pls).data.tracks)}
            \cup ListedTracks(Tail(pls))

\* the purge runs beside downloads and checks of the tracks the playlists list
NextStore ==
    \/ ChangePlaylists
    \/ \E r \in Runs : CleanFilesCall(r)
    \/ \E r \in Runs : ReadDirectoryDone(r)
    \/ \E r \in Runs : ReadDirectoryFails(r)
    \/ \E r \in Runs : CleanFilesResume(r)
    \/ \E d \in deletes : DeleteResolves(d)
    \/ \E d \in deletes : DeleteRejects(d)
    \/ \E track \in ListedTracks(playlists) : CreateDownloader(track)
    \/ \E s \in 1..Len(sessions) : DownloadAsync(s)
    \/ \E s \in 1..Len(sessions) : DownloadCompletes(s)
    \/ \E s \in 1..Len(sessions) : DownloadFails(s)
    \/ \E track \in ListedTracks(playlists) : IsDownloadedCall(track)
    \/ \E c \in 1..Len(checks) : IsDownloadedReturn(c)

InitStoreSpec ==
    InitStore /\ NamesUnused /\ PlayerUnused /\ SeekUnused /\ CallsUnused /\ console = {}

SpecStore == InitStoreSpec /\ [][NextStore]_vars

\* the file names that completed downloads among ss have written for tracks
\* listed in pls
DownloadedListedFiles(pls, ss) ==
    {getFileName(track) : track \in
        {t \in ListedTracks(pls) :
            \E s \in 1..Len(ss) :
                /\ ss[s].status = "done"
                /\ ss[s].localPath = getFilePath(t)}}

\* C17: a download created with local = getFileName(track) writes to
\* getFilePath(track), the path isDownloaded checks, and that file name is in
\* the active set of cleanFiles whenever the track is listed in a playlist;
\* so a file downloaded for a track that is listed is reported as downloaded
\* by isDownloaded and no step removes it from the document directory.
C17_DownloadedFilesKept ==
    [][/\ \A track \in FileTracks :
            /\ createDownloader(getFileName(track), RemotePath(track)).localPath
                  = getFilePath(track)
            /\ track.id \in {t.id : t \in ListedTracks(playlists)}
                  => Includes(activeFilesOf(playlists), getFileName(track))
       /\ \A c \in 1..Len(checks) :
            (checks[c].pc = "done" /\ checks[c].info.exists)
                => checks[c].result.downloadStatus = 100
       /\ \A f \in DownloadedListedFiles(playlists, sessions)
                    \cap DownloadedListedFiles(playlists', sessions') :
            f \in disk => f \in disk']_vars

====
